---- MODULE Spec2Model ----
(***************************************************************************)
(* Model of the sales page of the point-of-sale application                *)
(* (OptimizedModernSalesPage): the cart handlers, the selectors, the Add   *)
(* Customer modal, handleCheckout and the two per-line writers             *)
(* processOnlineSale / processOfflineSale.                                 *)
(*                                                                         *)
(* handleCheckout is an async function.  It runs synchronously up to its   *)
(* first await and is resumed when the awaited remote / storage call       *)
(* returns.  Every action below is one such run-to-completion segment: the *)
(* handler's start, or the return of the one call that is in flight        *)
(* together with everything the handler does until it suspends again.      *)
(* Between two segments the UI event loop may run any other handler.       *)
(*                                                                         *)
(* The functions of one render close over that render's state.  The values *)
(* the running checkout captured when it was invoked (cart, paymentMethod, *)
(* isOnline, user, customer) are the ck* variables.                        *)
(*                                                                         *)
(* Prices and amounts are integers; timestamps are not modelled.           *)
(***************************************************************************)
EXTENDS Integers, Sequences, FiniteSets, TLC

\* ------------------------------------------------------------------ bounds
\* Largest quantity a cart line takes in the model.
MaxQty == 2
\* Largest number of units, over all its lines, a cart holds in the model.
MaxUnits == 2
\* Number of checkout attempts in one behaviour of Spec.
MaxCheckouts == 1
\* Number of checkout attempts in one behaviour of SpecSession.
MaxSessionCheckouts == 2
\* Units of one cart line in a session with a second attempt.
MaxSessionQty == 1
\* Units of one cart line where the end of a checkout is checked.
MaxLiveQty == 1
\* Number of reads useOfflineAwareData starts in one behaviour.
MaxReads == 2
\* Largest amount of a debt payment.
MaxAmount == 2
\* Number of sales the sales-trend chart is given.
MaxSales == 2
\* Instants per hour of the chart's clock.
TicksPerHour == 2

\* ------------------------------------------------------------- value sets
None == "none"
ProductIds == {"p1", "p2"}
CustomerIds == {"c1"}
\* The ids of the customers the Add Customer modal can create.
NewCustomerIds == {"c2"}
\* The payment methods chosen in a session with a second attempt.
SessionMethods == {"cash", "debt"}
PaymentMethods == {"cash", "mpesa", "debt"}
\* The values the user picks in the customer <select>: no customer, a
\* customer of the first list or one the modal created.
Selectable == CustomerIds \cup NewCustomerIds \cup {None}
\* Those picked in a session with a second attempt.
SessionSelectable == NewCustomerIds \cup {None}

Max(a, b) == IF a >= b THEN a ELSE b

\* The product list as first loaded: p1 sells at a profit, p2 at a loss and
\* with less stock than MaxQty, so that the stock floor is exercised.
InitialProducts ==
  [p \in ProductIds |->
     IF p = "p1"
       THEN [id |-> "p1", name |-> "Sugar", sellingPrice |-> 100, costPrice |-> 60,
             currentStock |-> 3]
       ELSE [id |-> "p2", name |-> "Salt", sellingPrice |-> 50, costPrice |-> 70,
             currentStock |-> 1]]

InitialCustomers ==
  [c \in CustomerIds |->
     [id |-> c, name |-> "Amina", outstandingDebt |-> 10, totalPurchases |-> 20]]

VARIABLES
  cart,                  \* useState<CartItem[]>: sequence of product + quantity
  selectedCustomerId,    \* useState<string | null>
  paymentMethod,         \* useState<PaymentMethod>
  isProcessingCheckout,  \* useState(false): the busy flag
  showAddCustomer,       \* useState(false): the Add Customer modal is open
  addedCustomers,        \* ids of the customers created through the modal
  user,                  \* useAuth().user: "u1" or None
  isOnline,              \* useOfflineManager().isOnline
  pendingOperations,     \* useOfflineManager().pendingOperations
  customers,             \* the customers table as useSupabaseCustomers sees it
  remoteStock,           \* products.current_stock in the remote store
  remoteSales,           \* rows inserted into the remote sales table since the
                         \* current checkout attempt began, in insertion order
  pendingQueue,          \* records appended to the local pending queue since
                         \* the current checkout attempt began
  ckState,               \* Idle | Processing | Completed | Failed
  pc,                    \* the call the running checkout awaits
  ckLine,                \* index into ckCart of the line being processed
  ckId,                  \* number of checkouts that entered Processing
  ckCart,                \* cart captured by the current attempt
  ckPaymentMethod,       \* paymentMethod captured by the current attempt
  ckCustomerId,          \* selectedCustomerId captured by the current attempt
  ckCustomer,            \* customers.find(...) || null (id None), found at the start
  ckOnline,              \* isOnline captured by the current attempt
  ckPendingBefore,       \* pendingOperations when the attempt began
  ckCustomersBefore,     \* customers when the attempt began
  ckStockBefore,         \* remote stock just before the last stock write
  writes,                \* the calls the current attempt has awaited, in order
  toast                  \* toast emitted by the last step, None otherwise

\* One instance of the hook useOfflineAwareData({table, filters}).
VARIABLES
  data,                  \* useState<T[]>([]): the rows exposed, as a set
  loading,               \* useState(true)
  error,                 \* useState<string | null>(null): None or "message"
  filters,               \* the filters option of the current render
  readerOnline,          \* useOfflineFirst().isOnline
  offlineCache,          \* the rows the offline store holds for the table
  reads,                 \* the fetchData calls in flight, in start order
  readCount,             \* number of fetchData calls started
  lastRead,              \* the fetchData call that ended with the last step
  lastPut,               \* the remote result of the last read of this
                         \* session that stored one
  latest                 \* what the fetchData call started last set when it
                         \* ended, once it has ended

\* The debt payments of one customer, recorded through the database function
\* record_debt_payment_with_balance_update.
VARIABLES
  outstanding_debt,      \* customers.outstanding_debt of the customer
  debt_payments,         \* the rows of debt_payments, in insertion order
  recording              \* per session: the payment it is recording

\* EnhancedSalesTrendChart.
VARIABLES
  timeframe,             \* the timeframe state: hourly, daily or monthly
  chartNow,              \* new Date() of the last computation of chartData
  chartSales,            \* the sales prop
  chartData              \* the memoised chartData

ledgerVars == <<outstanding_debt, debt_payments, recording>>
chartVars == <<timeframe, chartNow, chartSales, chartData>>

pageVars == <<cart, selectedCustomerId, paymentMethod, isProcessingCheckout,
              showAddCustomer, addedCustomers, user,
              isOnline, pendingOperations, customers, remoteStock, remoteSales,
              pendingQueue, ckState, pc, ckLine, ckId, ckCart, ckPaymentMethod,
              ckCustomerId, ckCustomer, ckOnline, ckPendingBefore,
              ckCustomersBefore, ckStockBefore, writes, toast>>
hookVars == <<data, loading, error, filters, readerOnline, offlineCache, reads,
              readCount, lastRead, lastPut, latest>>
vars == <<cart, selectedCustomerId, paymentMethod, isProcessingCheckout,
          showAddCustomer, addedCustomers, user,
          isOnline, pendingOperations, customers, remoteStock, remoteSales,
          pendingQueue, ckState, pc, ckLine, ckId, ckCart, ckPaymentMethod,
          ckCustomerId, ckCustomer, ckOnline, ckPendingBefore, ckCustomersBefore,
          ckStockBefore, writes, toast, data, loading, error, filters,
          readerOnline, offlineCache, reads, readCount, lastRead, lastPut,
          latest, outstanding_debt, debt_payments, recording, timeframe,
          chartNow, chartSales, chartData>>
\* What the actions of one component leave alone.
offPage == <<hookVars, ledgerVars, chartVars>>
offHook == <<pageVars, ledgerVars, chartVars>>
offLedger == <<pageVars, hookVars, chartVars>>
offChart == <<pageVars, hookVars, ledgerVars>>

\* What the page and the stores hold.
uiVars == <<cart, selectedCustomerId, paymentMethod>>
storeVars == <<customers, remoteStock, pendingOperations>>
modalVars == <<showAddCustomer, addedCustomers>>
\* The record of the current checkout attempt.
attemptVars == <<ckState, ckLine, ckCart, ckPaymentMethod, ckCustomerId, ckCustomer,
                 ckOnline, ckPendingBefore, ckCustomersBefore, ckStockBefore,
                 writes, remoteSales, pendingQueue>>

NoCustomer == [id |-> None, name |-> None, outstandingDebt |-> 0, totalPurchases |-> 0]

\* The filter keys and the rows of the table the hook reads.  None stands
\* for a filter value that is undefined or null, or a key that is absent.
Keys == {"category", "user_id"}
Rows ==
  { [id |-> "r1", category |-> "a", user_id |-> "u1"],
    [id |-> "r2", category |-> "b", user_id |-> "u1"],
    [id |-> "r3", category |-> "a", user_id |-> "u2"] }
FilterSets == [category : {None, "a", "b"}, user_id : {None, "u1"}]
NoFilters == [category |-> None, user_id |-> None]

\* lastRead when the last step ended no fetchData call.
NoRead ==
  [done |-> FALSE, online |-> FALSE, filters |-> NoFilters, fresh |-> {},
   threw |-> "none", fallback |-> "none", queries |-> 0, overlapped |-> FALSE,
   cacheBefore |-> {}]

\* latest while the fetchData call started last is in flight.
NoResult == [done |-> FALSE, data |-> {}, error |-> None]

\* The page before its first event.
InitPage ==
  /\ cart = <<>>
  /\ selectedCustomerId = None
  /\ paymentMethod = "cash"
  /\ isProcessingCheckout = FALSE
  /\ showAddCustomer = FALSE
  /\ addedCustomers = {}
  /\ user \in {"u1", None}
  /\ isOnline \in BOOLEAN
  /\ pendingOperations = 0
  /\ customers = InitialCustomers
  /\ remoteStock = [p \in ProductIds |-> InitialProducts[p].currentStock]
  /\ remoteSales = <<>>
  /\ pendingQueue = <<>>
  /\ ckState = "Idle"
  /\ pc = "none"
  /\ ckLine = 0
  /\ ckId = 0
  /\ ckCart = <<>>
  /\ ckPaymentMethod = "cash"
  /\ ckCustomerId = None
  /\ ckCustomer = NoCustomer
  /\ ckOnline = FALSE
  /\ ckPendingBefore = 0
  /\ ckCustomersBefore = InitialCustomers
  /\ ckStockBefore = 0
  /\ writes = <<>>
  /\ toast = None

\* The hook after its first render, before the effect that calls fetchData:
\* the useState initial values, and the rows the durable offline store holds
\* for the table from earlier sessions.
InitHook(online, f, cached) ==
  /\ data = {}
  /\ loading = TRUE
  /\ error = None
  /\ filters = f
  /\ readerOnline = online
  /\ offlineCache = cached
  /\ reads = <<>>
  /\ readCount = 0
  /\ lastRead = NoRead
  /\ lastPut = [stored |-> FALSE, rows |-> {}]
  /\ latest = NoResult

\* The sessions that record payments of the customer.
Sessions == {"s1", "s2"}
NotRecording == [pc |-> "idle", p_amount |-> 0, hasNew |-> FALSE,
                 p_new_outstanding_debt |-> 0]

\* No payment recorded yet; the customer owes debt.
InitLedger(debt) ==
  /\ outstanding_debt = debt
  /\ debt_payments = <<>>
  /\ recording = [s \in Sessions |-> NotRecording]

\* The chart is not mounted.
InitChartUnmounted ==
  /\ timeframe = "daily"
  /\ chartNow = 0
  /\ chartSales = <<>>
  /\ chartData = <<>>

Init ==
  /\ InitPage
  /\ InitHook(TRUE, NoFilters, {})
  /\ InitLedger(InitialCustomers["c1"].outstandingDebt)
  /\ InitChartUnmounted

\* A checkout attempt rests in Completed or Failed until the next event of
\* the page; with that event the page is Idle again and the record of the
\* finished attempt is dropped.  Nothing the program holds changes here.
nextAttempt ==
  IF ckState \in {"Completed", "Failed"}
    THEN /\ ckState' = "Idle"
         /\ ckLine' = 0
         /\ ckCart' = <<>>
         /\ ckPaymentMethod' = "cash"
         /\ ckCustomerId' = None
         /\ ckCustomer' = NoCustomer
         /\ ckOnline' = FALSE
         /\ ckPendingBefore' = pendingOperations
         /\ ckCustomersBefore' = customers
         /\ ckStockBefore' = 0
         /\ writes' = <<>>
         /\ remoteSales' = <<>>
         /\ pendingQueue' = <<>>
    ELSE UNCHANGED attemptVars

\* useSupabaseProducts().products: the product list the page renders.  The
\* hook keeps it equal to the remote table, which is the most a hook can do.
products ==
  [p \in ProductIds |-> [InitialProducts[p] EXCEPT !.currentStock = remoteStock[p]]]

\* ---------------------------------------------------------- cart handlers
InCart(c, id) == \E i \in 1..Len(c) : c[i].id = id

\* cart.map(item => item.id === id ? {...item, quantity: q} : item)
SetQuantity(c, id, q) ==
  [i \in 1..Len(c) |-> IF c[i].id = id THEN [c[i] EXCEPT !.quantity = q] ELSE c[i]]

\* cart.filter(item => item.id !== id)
Without(c, id) == SelectSeq(c, LAMBDA it : it.id # id)

QuantityOf(c, id) == LET i == CHOOSE j \in 1..Len(c) : c[j].id = id IN c[i].quantity

\* What a cart handler leaves alone.
cartFrame ==
  /\ toast' = None
  /\ nextAttempt
  /\ UNCHANGED <<selectedCustomerId, paymentMethod, user, showAddCustomer,
                 addedCustomers, isOnline, pc, ckId, isProcessingCheckout>>
  /\ UNCHANGED storeVars

\* addToCart(product); shouldAdd is the answer to window.confirm, asked only
\* for a product whose currentStock is 0.
addToCart(p, shouldAdd) ==
  /\ products[p].currentStock = 0 => shouldAdd
  /\ IF InCart(cart, p)
       THEN /\ QuantityOf(cart, p) < MaxQty
            /\ cart' = SetQuantity(cart, p, QuantityOf(cart, p) + 1)
       ELSE cart' = Append(cart, [id |-> p, name |-> products[p].name,
                                  sellingPrice |-> products[p].sellingPrice,
                                  costPrice |-> products[p].costPrice,
                                  currentStock |-> products[p].currentStock,
                                  quantity |-> 1])
  /\ cartFrame

removeFromCart(p) ==
  /\ InCart(cart, p)
  /\ cart' = Without(cart, p)
  /\ cartFrame

updateQuantityNoRemoval(p, newQuantity) ==
  /\ InCart(cart, p)
  /\ QuantityOf(cart, p) # newQuantity
  /\ cart' = SetQuantity(cart, p, newQuantity)
  /\ cartFrame
updateQuantity(p, newQuantity) ==
  /\ InCart(cart, p)
  /\ QuantityOf(cart, p) # newQuantity
  /\ cart' = IF newQuantity <= 0 THEN Without(cart, p)
             ELSE SetQuantity(cart, p, newQuantity)
  /\ cartFrame

clearCart ==
  /\ cart # <<>>
  /\ cart' = <<>>
  /\ cartFrame

\* The payment method buttons and the customer <select>.  Both are part of
\* the checkout section, which the page renders only inside
\* {cart.length > 0 && (...)}: with an empty cart there is no control to
\* take the input.  Neither control has a disabled attribute: both take
\* input while a checkout is Processing.  The running checkout reads
\* neither, it holds the values it captured.
setPaymentMethod(m) ==
  /\ cart # <<>>
  /\ paymentMethod # m
  /\ paymentMethod' = m
  /\ toast' = None
  /\ nextAttempt
  /\ UNCHANGED <<cart, selectedCustomerId, user, showAddCustomer,
                 addedCustomers, isOnline, pc, ckId, isProcessingCheckout>>
  /\ UNCHANGED storeVars

\* const [selectedCustomerId, setSelectedCustomerId] = useState(null): the
\* setter itself, called from the <select> and from the modal's callback.
setSelectedCustomerId(c) == selectedCustomerId' = c

\* <select value={selectedCustomerId || ''} onChange={(e) =>
\*   setSelectedCustomerId(e.target.value || null)}>: the options are "no
\* customer" and one for each customer of customers.map.
customerSelectChange(c) ==
  /\ cart # <<>>
  /\ c \in DOMAIN customers \cup {None}
  /\ selectedCustomerId # c
  /\ setSelectedCustomerId(c)
  /\ toast' = None
  /\ nextAttempt
  /\ UNCHANGED <<cart, paymentMethod, user, isOnline, pc, ckId,
                 isProcessingCheckout>>
  /\ UNCHANGED storeVars /\ UNCHANGED modalVars

\* ------------------------------------------------------ add customer modal
\* The "Add new customer" button next to the <select> and the "Add
\* Customer" quick action: onClick={() => setShowAddCustomer(true)}.  Both
\* are part of the checkout section, rendered with a filled cart only;
\* neither has a disabled attribute.
openAddCustomer ==
  /\ cart # <<>>
  /\ ~showAddCustomer
  /\ showAddCustomer' = TRUE
  /\ toast' = None
  /\ nextAttempt
  /\ UNCHANGED <<addedCustomers, user, isOnline, pc, ckId, isProcessingCheckout>>
  /\ UNCHANGED uiVars /\ UNCHANGED storeVars

\* {showAddCustomer && <AddCustomerModal onOpenChange={setShowAddCustomer}
\* .../>}: the modal is rendered outside the checkout section and stays
\* open when the cart empties and while a checkout is Processing.  The
\* user dismisses it.
closeAddCustomer ==
  /\ showAddCustomer
  /\ showAddCustomer' = FALSE
  /\ toast' = None
  /\ nextAttempt
  /\ UNCHANGED <<addedCustomers, user, isOnline, pc, ckId, isProcessingCheckout>>
  /\ UNCHANGED uiVars /\ UNCHANGED storeVars

\* onCustomerAdded={(customer) => { setSelectedCustomerId(customer.id);
\* setShowAddCustomer(false); }}: the modal reports the customer it created.
\* The customers list of the page is the hook's and is not touched here.
onCustomerAdded(c) ==
  /\ showAddCustomer
  /\ c \notin addedCustomers
  /\ setSelectedCustomerId(c)
  /\ showAddCustomer' = FALSE
  /\ addedCustomers' = addedCustomers \cup {c}
  /\ toast' = None
  /\ nextAttempt
  /\ UNCHANGED <<cart, paymentMethod, user, isOnline, pc, ckId,
                 isProcessingCheckout>>
  /\ UNCHANGED storeVars

\* A customer just created, as the customers table holds it.
NewCustomer(c) ==
  [id |-> c, name |-> "Baraka", outstandingDebt |-> 0, totalPurchases |-> 0]

\* useSupabaseCustomers().customers comes to list a customer the modal
\* created: until then customers.find does not find the selected id.
customerListed(c) ==
  /\ c \in addedCustomers
  /\ c \notin DOMAIN customers
  /\ customers' = customers @@ (c :> NewCustomer(c))
  /\ toast' = None
  /\ nextAttempt
  /\ UNCHANGED <<remoteStock, pendingOperations, user, isOnline, pc, ckId,
                 isProcessingCheckout>>
  /\ UNCHANGED uiVars /\ UNCHANGED modalVars

\* ------------------------------------------------------------ environment
\* The browser goes offline or comes back online.
connectivityChange ==
  /\ isOnline' = ~isOnline
  /\ toast' = None
  /\ nextAttempt
  /\ UNCHANGED <<user, showAddCustomer, addedCustomers, pc, ckId,
                 isProcessingCheckout>>
  /\ UNCHANGED uiVars /\ UNCHANGED storeVars

\* ---------------------------------------------------------------- checkout
\* const customer = selectedCustomerId
\*   ? customers.find(c => c.id === selectedCustomerId) || null : null
FindCustomer(cid) ==
  IF cid # None /\ cid \in DOMAIN customers THEN customers[cid] ELSE NoCustomer

\* paymentMethod === 'debt' && !selectedCustomerId
customerRequiredInverted(pm, cid) == pm = "debt" /\ cid # None
customerRequired(pm, cid) == pm = "debt" /\ cid = None

\* item.sellingPrice * item.quantity
total_amount(item) == item.sellingPrice * item.quantity

\* (item.sellingPrice - item.costPrice) * item.quantity
profitMisparenthesised(item) == item.sellingPrice - item.costPrice * item.quantity
profit(item) == (item.sellingPrice - item.costPrice) * item.quantity

\* The saleData object both writers build for a cart line; line says which
\* cart line the record was built for.
saleData(item, synced) ==
  [line |-> ckLine,
   user_id |-> user,
   product_id |-> item.id,
   product_name |-> item.name,
   quantity |-> item.quantity,
   selling_price |-> item.sellingPrice,
   cost_price |-> item.costPrice,
   profit |-> profit(item),
   total_amount |-> total_amount(item),
   customer_id |-> ckCustomerId,
   customer_name |-> ckCustomer.name,
   payment_method |-> ckPaymentMethod,
   synced |-> synced]

onlineSaleData(item) == saleData(item, TRUE)

offlineSaleDataSynced(item) == saleData(item, TRUE)
offlineSaleData(item) == saleData(item, FALSE)

\* paymentMethod === 'debt' && customer
debtUpdateDueAnyMethod(pm, customer) == customer.id # None
debtUpdateDue(pm, customer) == pm = "debt" /\ customer.id # None

\* The updates object passed to updateCustomer for a line: absolute values
\* computed from the customer object captured when the checkout started.
customerUpdates(customer, item) ==
  [outstandingDebt |-> customer.outstandingDebt + total_amount(item),
   totalPurchases |-> customer.totalPurchases + total_amount(item)]

\* Math.max(0, item.currentStock - item.quantity)
current_stock(item) == Max(0, item.currentStock - item.quantity)

\* if (isOnline) processOnlineSale(...) else processOfflineSale(...): the
\* first call the chosen writer awaits for a line.
dispatchSwapped(online) == IF online THEN "queue" ELSE "insert"
dispatch(online) == IF online THEN "insert" ELSE "queue"

\* The branch is taken once, with the isOnline of the render that was
\* clicked; the chosen writer then loops over the whole cart.
linePathResampled == dispatch(isOnline)
linePath == dispatch(ckOnline)

\* catch: one error toast; finally: the busy flag is cleared.
failCheckoutClearsCart ==
  /\ ckState' = "Failed"
  /\ pc' = "none"
  /\ isProcessingCheckout' = FALSE
  /\ toast' = "Error"
  /\ cart' = <<>>
  /\ UNCHANGED <<ckLine, selectedCustomerId, paymentMethod>>
failCheckoutStaysBusy ==
  /\ ckState' = "Failed"
  /\ pc' = "none"
  /\ isProcessingCheckout' = isProcessingCheckout
  /\ toast' = "Error"
  /\ UNCHANGED <<ckLine, cart, selectedCustomerId, paymentMethod>>
failCheckout ==
  /\ ckState' = "Failed"
  /\ pc' = "none"
  /\ isProcessingCheckout' = FALSE
  /\ toast' = "Error"
  /\ UNCHANGED <<ckLine, cart, selectedCustomerId, paymentMethod>>

\* Success toast, clearCart(), setSelectedCustomerId(null),
\* setPaymentMethod('cash'); finally: the busy flag is cleared.
completeCheckoutKeepsSelection ==
  /\ ckState' = "Completed"
  /\ pc' = "none"
  /\ isProcessingCheckout' = FALSE
  /\ toast' = "SaleCompleted"
  /\ cart' = <<>>
  /\ UNCHANGED <<ckLine, selectedCustomerId, paymentMethod>>
completeCheckout ==
  /\ ckState' = "Completed"
  /\ pc' = "none"
  /\ isProcessingCheckout' = FALSE
  /\ toast' = "SaleCompleted"
  /\ cart' = <<>>
  /\ selectedCustomerId' = None
  /\ paymentMethod' = "cash"
  /\ UNCHANGED ckLine

\* The handler suspends at the next await of the same line.
awaitNextSkipsCustomer(call) ==
  /\ pc' = "stock"
  /\ toast' = None
  /\ UNCHANGED <<ckState, ckLine, isProcessingCheckout, cart, selectedCustomerId,
                 paymentMethod>>
awaitNext(call) ==
  /\ pc' = call
  /\ toast' = None
  /\ UNCHANGED <<ckState, ckLine, isProcessingCheckout, cart, selectedCustomerId,
                 paymentMethod>>

\* End of the loop body: the next cart line, or the end of the writer.
nextLine ==
  IF ckLine < Len(ckCart)
    THEN /\ ckLine' = ckLine + 1
         /\ pc' = linePath
         /\ toast' = None
         /\ UNCHANGED <<ckState, isProcessingCheckout, cart, selectedCustomerId,
                        paymentMethod>>
    ELSE completeCheckout

\* if (saleError) throw new Error(...)
onSaleErrorIgnored == awaitNext("stock")
onSaleError == failCheckout

\* if (stockError) console.warn(...)
onStockErrorThrown == failCheckout
onStockError == nextLine

\* useSupabaseCustomers().updateCustomer(id, updates): the fields passed are
\* stored in the customer's row.
updateCustomer(id, updates) ==
  customers' = [customers EXCEPT ![id] =
                  [@ EXCEPT !.outstandingDebt = updates.outstandingDebt,
                            !.totalPurchases = updates.totalPurchases]]

\* useOfflineSales().createOfflineSale(saleData): the record is appended to
\* the local pending queue and the pending-operation count grows by one.
createOfflineSale(record) ==
  /\ pendingQueue' = Append(pendingQueue, record)
  /\ pendingOperations' = pendingOperations + 1

captured == <<ckId, ckCart, ckPaymentMethod, ckCustomerId, ckCustomer, ckOnline,
              ckPendingBefore, ckCustomersBefore>>

\* <Button onClick={handleCheckout} disabled={isProcessingCheckout ||
\* cart.length === 0 || (paymentMethod === 'debt' && !selectedCustomerId)}>:
\* the only trigger of handleCheckout takes no click while the expression
\* is true in the render on screen.
checkoutDisabledNever == FALSE
checkoutDisabled ==
  \/ isProcessingCheckout
  \/ cart = <<>>
  \/ (paymentMethod = "debt" /\ selectedCustomerId = None)

\* handleCheckout, from its invocation to its first await.  An empty cart
\* returns at once.  limit bounds the number of attempts of one behaviour.
handleCheckout(limit) ==
  /\ cart # <<>>
  /\ IF customerRequired(paymentMethod, selectedCustomerId)
       THEN /\ toast' = "CustomerRequired"
            /\ UNCHANGED <<user, showAddCustomer, addedCustomers,
                           isOnline, pc, ckId, isProcessingCheckout>>
            /\ UNCHANGED uiVars /\ UNCHANGED storeVars /\ UNCHANGED attemptVars
       ELSE /\ ckId < limit
            /\ ckId' = ckId + 1
            /\ ckCart' = cart
            /\ ckPaymentMethod' = paymentMethod
            /\ ckCustomerId' = selectedCustomerId
            /\ ckCustomer' = FindCustomer(selectedCustomerId)
            /\ ckOnline' = isOnline
            /\ ckPendingBefore' = pendingOperations
            /\ ckCustomersBefore' = customers
            /\ ckStockBefore' = 0
            /\ writes' = <<>>
            /\ remoteSales' = <<>>
            /\ pendingQueue' = <<>>
            /\ IF user = None
                 THEN \* if (!user) throw new Error('User not authenticated')
                      /\ ckState' = "Failed"
                      /\ pc' = "none"
                      /\ ckLine' = 0
                      /\ isProcessingCheckout' = FALSE
                      /\ toast' = "Error"
                 ELSE /\ ckState' = "Processing"
                      /\ pc' = dispatch(isOnline)
                      /\ ckLine' = 1
                      /\ isProcessingCheckout' = TRUE
                      /\ toast' = None
            /\ UNCHANGED <<user, showAddCustomer, addedCustomers, isOnline>>
            /\ UNCHANGED uiVars /\ UNCHANGED storeVars

\* A click on the checkout button: the button passes the click on to
\* handleCheckout unless it is rendered disabled.
clickCheckout(limit) ==
  /\ ~checkoutDisabled
  /\ handleCheckout(limit)

\* processOnlineSale: supabase.from('sales').insert(saleData) returns.
saleInsertReturns(ok) ==
  /\ pc = "insert"
  /\ writes' = Append(writes, [line |-> ckLine, call |-> "sale", ok |-> ok])
  /\ IF ok
       THEN /\ remoteSales' = Append(remoteSales, onlineSaleData(ckCart[ckLine]))
            /\ IF debtUpdateDue(ckPaymentMethod, ckCustomer)
                 THEN awaitNext("customer")
                 ELSE awaitNext("stock")
       ELSE /\ UNCHANGED remoteSales
            /\ onSaleError
  /\ UNCHANGED <<customers, remoteStock, pendingQueue, pendingOperations,
                 ckStockBefore, user, showAddCustomer, addedCustomers, isOnline>>
  /\ UNCHANGED captured

\* processOnlineSale: updateCustomer(customer.id, {...}) resolves or rejects.
updateCustomerReturns(ok) ==
  /\ pc = "customer"
  /\ writes' = Append(writes, [line |-> ckLine, call |-> "customer", ok |-> ok])
  /\ IF ok
       THEN /\ updateCustomer(ckCustomer.id, customerUpdates(ckCustomer, ckCart[ckLine]))
            /\ awaitNext("stock")
       ELSE /\ UNCHANGED customers
            /\ failCheckout
  /\ UNCHANGED <<remoteSales, remoteStock, pendingQueue, pendingOperations,
                 ckStockBefore, user, showAddCustomer, addedCustomers, isOnline>>
  /\ UNCHANGED captured

\* processOnlineSale: supabase.from('products').update({current_stock}) returns.
stockUpdateReturns(ok) ==
  /\ pc = "stock"
  /\ writes' = Append(writes, [line |-> ckLine, call |-> "stock", ok |-> ok])
  /\ ckStockBefore' = remoteStock[ckCart[ckLine].id]
  /\ IF ok
       THEN /\ remoteStock' =
                 [remoteStock EXCEPT ![ckCart[ckLine].id] = current_stock(ckCart[ckLine])]
            /\ nextLine
       ELSE /\ UNCHANGED remoteStock
            /\ onStockError
  /\ UNCHANGED <<customers, remoteSales, pendingQueue, pendingOperations,
                 user, showAddCustomer, addedCustomers, isOnline>>
  /\ UNCHANGED captured

\* processOfflineSale: createOfflineSale(saleData) resolves.
createOfflineSaleReturns ==
  /\ pc = "queue"
  /\ writes' = Append(writes, [line |-> ckLine, call |-> "queue", ok |-> TRUE])
  /\ createOfflineSale(offlineSaleData(ckCart[ckLine]))
  /\ nextLine
  /\ UNCHANGED <<customers, remoteSales, remoteStock, ckStockBefore,
                 user, showAddCustomer, addedCustomers, isOnline>>
  /\ UNCHANGED captured

\* ------------------------------------------------------ useOfflineAwareData
\* fetchData is an async function as well: each action below is its start
\* or the return of the call one of its invocations awaits.  An invocation
\* closes over the isOnline and filters of the render that created it.
\* Nothing cancels an invocation, so several can be in flight.

\* supabase.from(table).select(select), with .eq(key, value) for every
\* filter whose value is neither undefined nor null: the rows of the remote
\* table the query returns.
remoteQuery(f) ==
  {r \in Rows : \A k \in Keys : f[k] # None => r[k] = f[k]}

\* filteredData.filter(item => item[key] === value), for every filter whose
\* value is neither undefined nor null.
applyFiltersStrictNull(rows, f) ==
  {r \in rows : \A k \in Keys : r[k] = f[k]}
applyFilters(rows, f) ==
  {r \in rows : \A k \in Keys : f[k] # None => r[k] = f[k]}

\* useOfflineFirst().getOfflineData(table): the snapshot last stored for the
\* table, empty when nothing was stored (so that `cachedData || []` and
\* `if (fallbackData)` take the array returned).
getOfflineData == offlineCache

\* useOfflineFirst().storeOfflineData(table, rows): the snapshot of the
\* table is replaced by rows.
storeOfflineData(rows) == offlineCache' = rows

\* The rows passed to storeOfflineData: freshData.
storedRowsStale(read) == data
storedRows(read) == read.fresh

RemoveAt(q, i) == SubSeq(q, 1, i - 1) \o SubSeq(q, i + 1, Len(q))

NewRead(online, f, overlapped) ==
  [online |-> online, filters |-> f, pc |-> IF online THEN "query" ELSE "get",
   fresh |-> {}, threw |-> "none", queries |-> IF online THEN 1 ELSE 0,
   overlapped |-> overlapped]

\* fetchData, from its call to its first await: setLoading(true),
\* setError(null), then the remote query (online) or the cache read
\* (offline) is issued.  It is the fetchData of the render just committed.
fetchData ==
  /\ readCount < MaxReads
  /\ readCount' = readCount + 1
  /\ loading' = TRUE
  /\ error' = None
  /\ reads' = Append([j \in 1..Len(reads) |-> [reads[j] EXCEPT !.overlapped = TRUE]],
                     NewRead(readerOnline', filters', reads # <<>>))
  /\ lastRead' = NoRead
  /\ latest' = NoResult
  /\ UNCHANGED <<data, offlineCache, lastPut>>

\* useEffect(() => { fetchData() }, [fetchData, ...]) after the first render.
mount ==
  /\ readCount = 0
  /\ UNCHANGED <<filters, readerOnline>>
  /\ fetchData

\* A render with other filters: JSON.stringify(filters) changes, fetchData
\* is created anew and the effect calls it.
filtersChange(f) ==
  /\ readCount > 0
  /\ f # filters
  /\ filters' = f
  /\ UNCHANGED readerOnline
  /\ fetchData

\* isOnline changes: fetchData is created anew and the effect calls it.
readerConnectivityChange ==
  /\ readCount > 0
  /\ readerOnline' = ~readerOnline
  /\ UNCHANGED filters
  /\ fetchData

\* refetch()
refetch ==
  /\ readCount > 0
  /\ UNCHANGED <<filters, readerOnline>>
  /\ fetchData

\* finally { setLoading(false) }: the invocation has ended.
readEndsLoading(i, fallback) ==
  /\ loading' = loading
  /\ reads' = RemoveAt(reads, i)
  /\ lastRead' =
       [done |-> TRUE, online |-> reads[i].online, filters |-> reads[i].filters,
        fresh |-> reads[i].fresh, threw |-> reads[i].threw, fallback |-> fallback,
        queries |-> reads[i].queries, overlapped |-> reads[i].overlapped,
        cacheBefore |-> offlineCache]
  /\ latest' = IF ~latest.done /\ i = Len(reads)
                 THEN [done |-> TRUE, data |-> data',
                       error |-> IF reads[i].threw = "none" THEN None ELSE "message"]
                 ELSE latest
readEnds(i, fallback) ==
  /\ loading' = FALSE
  /\ reads' = RemoveAt(reads, i)
  /\ lastRead' =
       [done |-> TRUE, online |-> reads[i].online, filters |-> reads[i].filters,
        fresh |-> reads[i].fresh, threw |-> reads[i].threw, fallback |-> fallback,
        queries |-> reads[i].queries, overlapped |-> reads[i].overlapped,
        cacheBefore |-> offlineCache]
  /\ latest' = IF ~latest.done /\ i = Len(reads)
                 THEN [done |-> TRUE, data |-> data',
                       error |-> IF reads[i].threw = "none" THEN None ELSE "message"]
                 ELSE latest

\* catch (err): setError(...), then the fallback cache read is issued.
fetchFailed(i, call) ==
  /\ error' = "message"
  /\ reads' = [reads EXCEPT ![i].pc = "fallback", ![i].threw = call]
  /\ lastRead' = NoRead
  /\ UNCHANGED <<data, loading, offlineCache, lastPut, latest>>

\* const { data: freshData, error: fetchError } = await query returns.
\* On success storeOfflineData(table, freshData) is issued (freshData is an
\* array whenever fetchError is null).
queryReturns(i, ok) ==
  /\ i \in 1..Len(reads)
  /\ reads[i].pc = "query"
  /\ IF ok
       THEN /\ reads' = [reads EXCEPT ![i].pc = "store",
                                      ![i].fresh = remoteQuery(reads[i].filters)]
            /\ lastRead' = NoRead
            /\ UNCHANGED <<data, loading, error, offlineCache, lastPut, latest>>
       ELSE fetchFailed(i, "query")
  /\ UNCHANGED <<filters, readerOnline, readCount>>

\* await storeOfflineData(table, freshData) resolves or rejects; after it,
\* setData(freshData).
storeReturns(i, ok) ==
  /\ i \in 1..Len(reads)
  /\ reads[i].pc = "store"
  /\ IF ok
       THEN /\ storeOfflineData(storedRows(reads[i]))
            /\ lastPut' = [stored |-> TRUE, rows |-> reads[i].fresh]
            /\ data' = reads[i].fresh
            /\ readEnds(i, "none")
            /\ UNCHANGED error
       ELSE fetchFailed(i, "store")
  /\ UNCHANGED <<filters, readerOnline, readCount>>

\* const cachedData = await getOfflineData(table) resolves or rejects (the
\* offline branch); after it, the filters are applied and setData is called.
getReturns(i, ok) ==
  /\ i \in 1..Len(reads)
  /\ reads[i].pc = "get"
  /\ IF ok
       THEN /\ data' = applyFilters(getOfflineData, reads[i].filters)
            /\ readEnds(i, "none")
            /\ UNCHANGED <<error, offlineCache, lastPut>>
       ELSE fetchFailed(i, "get")
  /\ UNCHANGED <<filters, readerOnline, readCount>>

\* const fallbackData = await getOfflineData(table) in the catch resolves or
\* rejects: setData(fallbackData), or only a console.error.
fallbackReturns(i, ok) ==
  /\ i \in 1..Len(reads)
  /\ reads[i].pc = "fallback"
  /\ data' = IF ok THEN getOfflineData ELSE data
  /\ readEnds(i, IF ok THEN "ok" ELSE "threw")
  /\ UNCHANGED <<error, offlineCache, lastPut>>
  /\ UNCHANGED <<filters, readerOnline, readCount>>

\* -------------------------------- record_debt_payment_with_balance_update
\* The p_new_outstanding_debt a session passes: the debt it read, less the
\* payment.
newOutstandingDebt(seen, amount) == seen - amount

\* A session reads the customer, computes the arguments and calls the
\* function; hasNew = FALSE is p_new_outstanding_debt = NULL.
beginRecording(s, amount, hasNew) ==
  /\ recording[s].pc = "idle"
  /\ recording' = [recording EXCEPT ![s] =
       [pc |-> "rpc", p_amount |-> amount, hasNew |-> hasNew,
        p_new_outstanding_debt |->
          IF hasNew THEN newOutstandingDebt(outstanding_debt, amount) ELSE 0]]
  /\ UNCHANGED <<outstanding_debt, debt_payments>>

\* The body of the function, BEGIN ... END, committed as one transaction:
\* INSERT INTO debt_payments, then UPDATE customers SET outstanding_debt =
\* p_new_outstanding_debt when the argument is not NULL.
record_debt_payment_with_balance_update(s) ==
  /\ recording[s].pc = "rpc"
  /\ debt_payments' = Append(debt_payments,
       [session |-> s, amount |-> recording[s].p_amount, synced |-> TRUE])
  /\ outstanding_debt' = IF recording[s].hasNew
                           THEN recording[s].p_new_outstanding_debt
                           ELSE outstanding_debt
  /\ recording' = [recording EXCEPT ![s].pc = "done"]

\* The call fails: the transaction is rolled back.
recordingRejected(s) ==
  /\ recording[s].pc = "rpc"
  /\ recording' = [recording EXCEPT ![s].pc = "failed"]
  /\ UNCHANGED <<outstanding_debt, debt_payments>>

\* ------------------------------------------- EnhancedSalesTrendChart, hourly
\* Instants are integers, TicksPerHour to the hour, in a time zone with a
\* fixed offset.  A sale is its timestamp, its total and the discountAmount
\* of its paymentDetails (0 when it has none).

\* The hours the hourly chart initialises, and the length of its window.
Hours == 48

\* `${getFullYear()}-${month}-${date}-${getHours()}`, zero padded: the hour
\* the instant falls in.  Two keys compare under localeCompare as their
\* hours do.
hourKey(t) == t \div TicksPerHour

\* for (i = 47; i >= 0; i--) dataMap.set(key(now - i hours), 0)
initialKeys(now) == {hourKey(now - i * TicksPerHour) : i \in 0..(Hours - 1)}

\* saleDate >= new Date(now.getTime() - 48 * 60 * 60 * 1000)
inWindow(sale, now) == sale.timestamp >= now - Hours * TicksPerHour

\* Math.max(0, sale.total - (sale.paymentDetails?.discountAmount || 0))
netRevenue(sale) == Max(0, sale.total - sale.discountAmount)

\* sales.forEach: what the sales of the window add to the entry of key.
RECURSIVE revenueOf(_, _, _)
revenueOf(key, sales, now) ==
  IF sales = <<>> THEN 0
  ELSE (IF inWindow(sales[1], now) /\ hourKey(sales[1].timestamp) = key
          THEN netRevenue(sales[1]) ELSE 0)
       + revenueOf(key, Tail(sales), now)

\* The keys of dataMap after the forEach: a sale of the window sets its
\* key, whether the key was initialised or not.
dataMapKeys(sales, now) ==
  initialKeys(now) \cup
    {hourKey(sales[i].timestamp) : i \in {j \in 1..Len(sales) : inWindow(sales[j], now)}}

\* Array.from(dataMap.entries()).sort(([a], [b]) => a.localeCompare(b)):
\* the keys in ascending order.
sortKeys(keys) ==
  IF keys = {} THEN <<>>
  ELSE LET first == CHOOSE k \in keys : \A other \in keys : k <= other
           last == CHOOSE k \in keys : \A other \in keys : k >= other
       IN  SelectSeq([i \in 1..(last - first + 1) |-> first + i - 1],
                     LAMBDA k : k \in keys)

\* chartData of the hourly timeframe.
hourlyChartData(sales, now) ==
  LET sorted == sortKeys(dataMapKeys(sales, now))
  IN  [i \in 1..Len(sorted) |->
         [label |-> sorted[i], revenue |-> revenueOf(sorted[i], sales, now)]]

\* The calendar.  Instant 0 is the local midnight that starts the first day
\* of EpochMonth; a day has 24 hours (no daylight-saving shift).
EpochMonth == [year |-> 2026, month |-> 6]
TicksPerDay == 24 * TicksPerHour

\* The year and the month (1..12) that lie m months from EpochMonth.
yearMonth(m) ==
  LET months == EpochMonth.year * 12 + (EpochMonth.month - 1) + m
  IN  [year |-> months \div 12, month |-> (months % 12) + 1]

daysInMonth(m) ==
  LET ym == yearMonth(m)
      leap == ym.year % 4 = 0 /\ (ym.year % 100 # 0 \/ ym.year % 400 = 0)
  IN  IF ym.month \in {4, 6, 9, 11} THEN 30
      ELSE IF ym.month = 2 THEN (IF leap THEN 29 ELSE 28)
      ELSE 31

\* new Date(year, month, 1): the day on which month m starts.
RECURSIVE monthStartDay(_)
monthStartDay(m) ==
  IF m = 0 THEN 0
  ELSE IF m > 0 THEN monthStartDay(m - 1) + daysInMonth(m - 1)
  ELSE monthStartDay(m + 1) - daysInMonth(m)

\* `${getFullYear()}-${month}-${date}`, zero padded: the day the instant
\* falls in.
dayKey(t) == t \div TicksPerDay

\* `${getFullYear()}-${month}`, zero padded: the month the instant falls in.
RECURSIVE monthOfDay(_, _)
monthOfDay(day, m) ==
  IF day < monthStartDay(m) THEN monthOfDay(day, m - 1)
  ELSE IF day >= monthStartDay(m + 1) THEN monthOfDay(day, m + 1)
  ELSE m
monthKey(t) == monthOfDay(dayKey(t), 0)

\* The history the daily and the monthly chart are capped to.
CapDays == 365
CapMonths == 35

\* new Date(Math.min(...sales.map(s => new Date(s.timestamp).getTime())))
\* when sales.length is not 0; it is null otherwise, and the two uses below
\* test sales for that case.
earliestSaleDate(sales) ==
  LET times == {sales[i].timestamp : i \in 1..Len(sales)}
  IN  CHOOSE t \in times : \A other \in times : t <= other

\* startDate of the daily chart: the midnight of the earliest sale's day,
\* no earlier than now less 365 days.
startDate(sales, now) ==
  LET capStart == now - CapDays * TicksPerDay
      candidate == IF sales # <<>>
                     THEN dayKey(earliestSaleDate(sales)) * TicksPerDay
                     ELSE capStart
  IN  Max(candidate, capStart)

\* for (d = new Date(startDate); d <= now; d.setDate(d.getDate() + 1))
dailyKeys(sales, now) ==
  {dayKey(startDate(sales, now) + k * TicksPerDay) :
     k \in 0..((now - startDate(sales, now)) \div TicksPerDay)}

\* saleDate >= startDate && saleDate <= now
inDays(sale, sales, now) ==
  sale.timestamp >= startDate(sales, now) /\ sale.timestamp <= now

\* startMonth of the monthly chart: the first instant of the earliest
\* sale's month, no earlier than that of the month 35 months before now's.
startMonth(sales, now) ==
  LET capStartMonth == monthStartDay(monthKey(now) - CapMonths) * TicksPerDay
      candidateMonth == IF sales # <<>>
                          THEN monthStartDay(monthKey(earliestSaleDate(sales)))
                                 * TicksPerDay
                          ELSE capStartMonth
  IN  Max(candidateMonth, capStartMonth)

\* for (m = first of startMonth's month; m <= endMonth; m.setMonth(m + 1))
monthlyKeys(sales, now) ==
  monthKey(startMonth(sales, now))..monthKey(now)

\* saleDate >= startMonth && saleDate <= now
inMonths(sale, sales, now) ==
  sale.timestamp >= startMonth(sales, now) /\ sale.timestamp <= now

\* The entries of dataMap, sorted by key: the initialised keys at 0, and
\* what each counted sale adds to the entry of its key, which it creates if
\* the key was not initialised.  keyed[i] is the key of sales[i] and
\* counted[i] whether sales[i] passes the filter.
RECURSIVE revenueAt(_, _, _, _)
revenueAt(key, sales, keyed, counted) ==
  IF sales = <<>> THEN 0
  ELSE (IF counted[1] /\ keyed[1] = key THEN netRevenue(sales[1]) ELSE 0)
       + revenueAt(key, Tail(sales), Tail(keyed), Tail(counted))

sortedEntries(initialised, sales, keyed, counted) ==
  LET sorted == sortKeys(initialised \cup
                           {keyed[i] : i \in {j \in 1..Len(sales) : counted[j]}})
  IN  [i \in 1..Len(sorted) |->
         [label |-> sorted[i],
          revenue |-> revenueAt(sorted[i], sales, keyed, counted)]]

\* chartData of the daily timeframe.
dailyChartData(sales, now) ==
  sortedEntries(dailyKeys(sales, now), sales,
                [i \in 1..Len(sales) |-> dayKey(sales[i].timestamp)],
                [i \in 1..Len(sales) |-> inDays(sales[i], sales, now)])

\* chartData of the monthly timeframe.
monthlyChartData(sales, now) ==
  sortedEntries(monthlyKeys(sales, now), sales,
                [i \in 1..Len(sales) |-> monthKey(sales[i].timestamp)],
                [i \in 1..Len(sales) |-> inMonths(sales[i], sales, now)])

\* useMemo(() => ..., [sales, timeframe]): chartData as computed at now.
chartDataOf(option, sales, now) ==
  IF option = "hourly" THEN hourlyChartData(sales, now)
  ELSE IF option = "daily" THEN dailyChartData(sales, now)
  ELSE monthlyChartData(sales, now)

\* The instants of the model: the chart is computed on the hour or half
\* past; sales fall around the start and the end of the 48-hour window, and
\* one in an earlier month.
Timeframes == {"hourly", "daily", "monthly"}
ChartNows == {100 * TicksPerHour, 100 * TicksPerHour + 1}
SaleTimes ==
  {(100 - Hours) * TicksPerHour - 1, (100 - Hours) * TicksPerHour,
   (100 - Hours) * TicksPerHour + 1, (101 - Hours) * TicksPerHour,
   100 * TicksPerHour - 1, 100 * TicksPerHour + 1, 101 * TicksPerHour,
   0 - 40 * TicksPerDay}
Discounts == {0, 30, 150}

\* The chart is mounted, in the daily timeframe, with no sale.
InitChart ==
  /\ timeframe = "daily"
  /\ chartNow \in ChartNows
  /\ chartSales = <<>>
  /\ chartData = chartDataOf("daily", <<>>, chartNow)

\* The sales prop gains a sale: useMemo computes chartData anew, at the
\* time of that render.
salesChange(t, discount, now) ==
  /\ Len(chartSales) < MaxSales
  /\ now >= chartNow
  /\ chartNow' = now
  /\ chartSales' = Append(chartSales,
                          [timestamp |-> t, total |-> 100, discountAmount |-> discount])
  /\ chartData' = chartDataOf(timeframe, chartSales', now)
  /\ UNCHANGED timeframe

\* onClick={() => setTimeframe(option)}: with another timeframe than the
\* current one the component renders again and useMemo computes chartData
\* anew, at the time of that render.
setTimeframe(option, now) ==
  /\ option # timeframe
  /\ now >= chartNow
  /\ timeframe' = option
  /\ chartNow' = now
  /\ chartData' = chartDataOf(option, chartSales, now)
  /\ UNCHANGED chartSales

\* ----------------------------------------------------------- specification
\* limit bounds the checkout attempts of a behaviour, maxQty the quantity
\* of a cart line and MaxUnits the units of a cart; methods are the payment
\* methods and selectable the <select> values the user chooses.  Every control of the page takes input at any
\* time, also while a checkout is Processing; trigger is the way
\* handleCheckout is invoked.
RECURSIVE Units(_)
Units(c) == IF c = <<>> THEN 0 ELSE Head(c).quantity + Units(Tail(c))

PageEvents(maxQty, methods, selectable) ==
  \/ \E p \in ProductIds, shouldAdd \in BOOLEAN :
       /\ addToCart(p, shouldAdd)
       /\ \A i \in 1..Len(cart') : cart'[i].quantity <= maxQty
       /\ Units(cart') <= MaxUnits
       /\ UNCHANGED offPage
  \/ \E p \in ProductIds : removeFromCart(p) /\ UNCHANGED offPage
  \/ \E p \in ProductIds, q \in 0..maxQty :
       /\ updateQuantity(p, q)
       /\ Units(cart') <= MaxUnits
       /\ UNCHANGED offPage
  \/ clearCart /\ UNCHANGED offPage
  \/ \E m \in methods : setPaymentMethod(m) /\ UNCHANGED offPage
  \/ \E c \in selectable : customerSelectChange(c) /\ UNCHANGED offPage
  \/ openAddCustomer /\ UNCHANGED offPage
  \/ closeAddCustomer /\ UNCHANGED offPage
  \/ \E c \in NewCustomerIds : onCustomerAdded(c) /\ UNCHANGED offPage
  \/ \E c \in NewCustomerIds : customerListed(c) /\ UNCHANGED offPage
  \/ connectivityChange /\ UNCHANGED offPage

\* The awaited calls of a checkout return: every remote or storage call
\* eventually resolves or rejects.
Returns ==
  /\ \/ \E ok \in BOOLEAN : saleInsertReturns(ok)
     \/ \E ok \in BOOLEAN : updateCustomerReturns(ok)
     \/ \E ok \in BOOLEAN : stockUpdateReturns(ok)
     \/ createOfflineSaleReturns
  /\ UNCHANGED offPage

NextWith(limit, maxQty, methods, selectable) ==
  \/ PageEvents(maxQty, methods, selectable)
  \/ clickCheckout(limit) /\ UNCHANGED offPage
  \/ Returns

\* The page with one checkout attempt: the user edits the cart and the
\* selectors, opens the modal and adds a customer, and connectivity changes
\* at any time, before, during and after the attempt.
Next == NextWith(MaxCheckouts, MaxQty, PaymentMethods, Selectable)
Spec == Init /\ [][Next]_vars

\* A session with a second attempt, of carts with one unit a line, paid
\* cash or on debt, by no customer or one the modal created.
NextSession ==
  NextWith(MaxSessionCheckouts, MaxSessionQty, SessionMethods, SessionSelectable)
SpecSession == Init /\ [][NextSession]_vars

\* handleCheckout as a function of the render it closes over: it is invoked
\* in every state the page can show with no checkout in flight, the states
\* in which the button would not pass the click on included.
NextHandler ==
  \/ PageEvents(MaxQty, PaymentMethods, Selectable)
  \/ /\ ckState # "Processing"
     /\ handleCheckout(MaxCheckouts)
     /\ UNCHANGED offPage
  \/ Returns
SpecHandler == Init /\ [][NextHandler]_vars

\* The hook alone: renders with other filters, connectivity changes,
\* refetch calls and the returns of the calls in flight, in any order.
\* filterSets are the filter objects the renders pass.  The offline store
\* starts empty or with the whole table, as an unfiltered read leaves it.
InitReaderWith(filterSets) ==
  /\ InitPage
  /\ user = "u1"
  /\ isOnline
  /\ \E online \in BOOLEAN, f \in filterSets, cached \in {{}, Rows} :
       InitHook(online, f, cached)
  /\ InitLedger(InitialCustomers["c1"].outstandingDebt)
  /\ InitChartUnmounted

NextReaderWith(filterSets) ==
  \/ mount /\ UNCHANGED offHook
  \/ \E f \in filterSets : filtersChange(f) /\ UNCHANGED offHook
  \/ readerConnectivityChange /\ UNCHANGED offHook
  \/ refetch /\ UNCHANGED offHook
  \/ \E i \in 1..MaxReads, ok \in BOOLEAN : queryReturns(i, ok) /\ UNCHANGED offHook
  \/ \E i \in 1..MaxReads, ok \in BOOLEAN : storeReturns(i, ok) /\ UNCHANGED offHook
  \/ \E i \in 1..MaxReads, ok \in BOOLEAN : getReturns(i, ok) /\ UNCHANGED offHook
  \/ \E i \in 1..MaxReads, ok \in BOOLEAN : fallbackReturns(i, ok) /\ UNCHANGED offHook

InitReader == InitReaderWith(FilterSets)
NextReader == NextReaderWith(FilterSets)
SpecReader == InitReader /\ [][NextReader]_vars

\* The effect of the first render runs, and every call a fetchData awaits
\* resolves or rejects.  Which rows a read exposes plays no part in whether
\* it ends, so the renders of this specification pass one of two filter
\* objects.
ReaderReturns ==
  /\ \/ mount
     \/ \E i \in 1..MaxReads, ok \in BOOLEAN : queryReturns(i, ok)
     \/ \E i \in 1..MaxReads, ok \in BOOLEAN : storeReturns(i, ok)
     \/ \E i \in 1..MaxReads, ok \in BOOLEAN : getReturns(i, ok)
     \/ \E i \in 1..MaxReads, ok \in BOOLEAN : fallbackReturns(i, ok)
  /\ UNCHANGED offHook
LiveFilterSets == {NoFilters, [category |-> "a", user_id |-> None]}
InitReaderLive == InitReaderWith(LiveFilterSets)
NextReaderLive == NextReaderWith(LiveFilterSets)
SpecReaderLive == InitReaderLive /\ [][NextReaderLive]_vars /\ WF_vars(ReaderReturns)

\* Two sessions record payments of the same customer, in any interleaving.
InitLedgerAlone ==
  /\ InitPage
  /\ user = "u1"
  /\ isOnline
  /\ InitHook(TRUE, NoFilters, {})
  /\ InitLedger(InitialCustomers["c1"].outstandingDebt)
  /\ InitChartUnmounted

NextLedger ==
  \/ \E s \in Sessions, amount \in 1..MaxAmount, hasNew \in BOOLEAN :
       beginRecording(s, amount, hasNew) /\ UNCHANGED offLedger
  \/ \E s \in Sessions :
       record_debt_payment_with_balance_update(s) /\ UNCHANGED offLedger
  \/ \E s \in Sessions : recordingRejected(s) /\ UNCHANGED offLedger
SpecLedger == InitLedgerAlone /\ [][NextLedger]_vars

\* The chart alone, in the hourly timeframe.
InitChartAlone ==
  /\ InitPage
  /\ user = "u1"
  /\ isOnline
  /\ InitHook(TRUE, NoFilters, {})
  /\ InitLedger(InitialCustomers["c1"].outstandingDebt)
  /\ InitChart

NextChart ==
  \/ \E t \in SaleTimes, discount \in Discounts, now \in ChartNows :
       salesChange(t, discount, now) /\ UNCHANGED offChart
  \/ \E option \in Timeframes, now \in ChartNows :
       setTimeframe(option, now) /\ UNCHANGED offChart
SpecChart == InitChartAlone /\ [][NextChart]_vars

\* The page under the assumption that every awaited call returns, with
\* carts of one unit a line.
NextLive == NextWith(MaxCheckouts, MaxLiveQty, PaymentMethods, Selectable)
SpecLive == Init /\ [][NextLive]_vars /\ WF_vars(Returns)

\* ------------------------------------------------------------- properties
Last(q) == q[Len(q)]

RECURSIVE SumTotals(_)
SumTotals(c) ==
  IF c = <<>> THEN 0
  ELSE c[1].sellingPrice * c[1].quantity + SumTotals(Tail(c))

\* The records the current attempt has created, wherever it put them.
Created == remoteSales \o pendingQueue

\* C1: a completed checkout with a payment method other than debt, online or
\* offline, has created exactly one sale record per line of the cart it was
\* started with, in cart order, and the record of a line carries
\* total_amount = sellingPrice * quantity and
\* profit = (sellingPrice - costPrice) * quantity of that line.
C1_OneRecordPerLine ==
  (ckState = "Completed" /\ ckPaymentMethod # "debt") =>
     /\ Len(Created) = Len(ckCart)
     /\ \A i \in 1..Len(ckCart) :
          /\ Created[i].line = i
          /\ Created[i].product_id = ckCart[i].id
          /\ Created[i].quantity = ckCart[i].quantity
          /\ Created[i].total_amount = ckCart[i].sellingPrice * ckCart[i].quantity
          /\ Created[i].profit =
               (ckCart[i].sellingPrice - ckCart[i].costPrice) * ckCart[i].quantity

C1_Witness ==
  /\ ckState = "Completed"
  /\ ckPaymentMethod = "mpesa"
  /\ ckOnline
  /\ Len(ckCart) = 2
  /\ Len(remoteSales) = 2
  /\ ckCart[1].id = "p1"
  /\ ckCart[2].id = "p2"
  /\ remoteSales[2].profit < 0

\* C2: in a state where the payment method is debt and no customer is
\* selected, no step starts a checkout attempt or creates a sale record, and
\* the step of handleCheckout that shows the "Customer Required" toast
\* leaves the cart, the stores and the checkout state as they were.
C2_DebtNeedsCustomer ==
  [][(paymentMethod = "debt" /\ selectedCustomerId = None /\ ~isProcessingCheckout) =>
       /\ ckId' = ckId
       /\ ckState' # "Processing"
       /\ ~isProcessingCheckout'
       /\ Len(remoteSales') <= Len(remoteSales)
       /\ Len(pendingQueue') <= Len(pendingQueue)
       /\ pendingOperations' = pendingOperations
       /\ toast' # "Error"
       /\ toast' = "CustomerRequired" =>
            /\ UNCHANGED <<cart, selectedCustomerId, paymentMethod>>
            /\ UNCHANGED <<remoteSales, pendingQueue, remoteStock, customers>>
            /\ UNCHANGED ckState]_vars

C2_Witness ==
  /\ toast = "CustomerRequired"
  /\ paymentMethod = "debt"
  /\ selectedCustomerId = None
  /\ Len(cart) = 2
  /\ ckState = "Idle"
  /\ remoteSales = <<>>
  /\ pendingQueue = <<>>

\* C3: when the remote sale insert of line k of an online checkout has been
\* rejected, the checkout is Failed with the one error toast, the records
\* of lines 1..k-1 are the rows of the sales table, all with synced = TRUE,
\* and no call of any kind was made for a line after k.
C3_InsertRejected ==
  (writes # <<>> /\ Last(writes).call = "sale" /\ ~Last(writes).ok) =>
     LET k == Last(writes).line IN
       /\ ckOnline
       /\ ckState = "Failed"
       /\ toast = "Error"
       /\ ~isProcessingCheckout
       /\ Len(remoteSales) = k - 1
       /\ \A i \in 1..(k - 1) :
            /\ remoteSales[i].line = i
            /\ remoteSales[i].product_id = ckCart[i].id
            /\ remoteSales[i].synced = TRUE
       /\ pendingQueue = <<>>
       /\ \A i \in 1..Len(writes) : writes[i].line <= k
       /\ \A i \in 1..(Len(writes) - 1) : writes[i].line < k

C3_Witness ==
  /\ writes # <<>>
  /\ Last(writes).call = "sale"
  /\ ~Last(writes).ok
  /\ Last(writes).line = 2
  /\ Len(remoteSales) = 1
  /\ remoteSales[1].synced = TRUE
  /\ ckState = "Failed"

\* C4: after a completed online debt checkout for a customer, the customer's
\* outstandingDebt and totalPurchases have each grown by the sum of the line
\* totals of the whole cart.
C4_DebtAccumulates ==
  (ckState = "Completed" /\ ckOnline /\ ckPaymentMethod = "debt"
     /\ ckCustomer.id # None) =>
     /\ customers[ckCustomer.id].outstandingDebt =
          ckCustomersBefore[ckCustomer.id].outstandingDebt + SumTotals(ckCart)
     /\ customers[ckCustomer.id].totalPurchases =
          ckCustomersBefore[ckCustomer.id].totalPurchases + SumTotals(ckCart)

\* C5: an offline checkout puts one record per processed cart line into the
\* pending queue, each with synced = FALSE, the pending-operation count has
\* grown by exactly the number of those records, which is the length of the
\* cart once the checkout is Completed; with a signed-in user an offline
\* checkout does not fail.
C5_OfflineQueued ==
  (ckState \in {"Processing", "Completed", "Failed"} /\ ~ckOnline) =>
     /\ Len(pendingQueue) =
          IF ckState = "Completed" THEN Len(ckCart)
          ELSE IF ckState = "Processing" THEN ckLine - 1 ELSE 0
     /\ \A i \in 1..Len(pendingQueue) :
          /\ pendingQueue[i].synced = FALSE
          /\ pendingQueue[i].line = i
          /\ pendingQueue[i].product_id = ckCart[i].id
          /\ pendingQueue[i].quantity = ckCart[i].quantity
     /\ pendingOperations = ckPendingBefore + Len(pendingQueue)
     /\ ckState = "Failed" => user = None

C5_Witness ==
  /\ ckState = "Completed"
  /\ ~ckOnline
  /\ Len(ckCart) = 2
  /\ Len(pendingQueue) = 2
  /\ pendingOperations = ckPendingBefore + 2
  /\ ~pendingQueue[2].synced

\* C6: all records of one checkout attempt went the way chosen by the
\* connectivity the attempt captured when it started: online, every call is a
\* remote call and every record is a row of the sales table with
\* synced = TRUE; offline, every call is a queue append and every record is
\* in the pending queue with synced = FALSE; whatever isOnline is by now.
C6_OnePathPerCheckout ==
  (ckState # "Idle") =>
     IF ckOnline
       THEN /\ pendingQueue = <<>>
            /\ \A i \in 1..Len(remoteSales) : remoteSales[i].synced = TRUE
            /\ \A i \in 1..Len(writes) : writes[i].call # "queue"
       ELSE /\ remoteSales = <<>>
            /\ \A i \in 1..Len(pendingQueue) : pendingQueue[i].synced = FALSE
            /\ \A i \in 1..Len(writes) : writes[i].call = "queue"

\* The last record was created by the step that completed the checkout, at
\* which time connectivity already differed from the captured one.
C6_Witness ==
  /\ ckState = "Completed"
  /\ toast = "SaleCompleted"
  /\ isOnline # ckOnline
  /\ Len(Created) = 2
  /\ Created[1].synced = Created[2].synced

\* Every customer has the outstandingDebt and totalPurchases it had when
\* the attempt began, a customer listed since then those it was created
\* with.
customersAsBefore ==
  \A c \in DOMAIN customers :
     customers[c] = IF c \in DOMAIN ckCustomersBefore
                      THEN ckCustomersBefore[c] ELSE NewCustomer(c)

\* C7: a checkout attempt whose payment method is not debt, or that has no
\* customer selected, has made no customer update and has left every
\* customer's outstandingDebt and totalPurchases as they were, whatever
\* customer the modal or the <select> selects while it runs.
C7_DebtOnlyUpdates ==
  (ckState # "Idle" /\ ~(ckPaymentMethod = "debt" /\ ckCustomerId # None)) =>
     /\ customersAsBefore
     /\ \A i \in 1..Len(writes) : writes[i].call # "customer"

\* A cash checkout with a customer selected, during which the modal created
\* and selected another customer.
C7_Witness ==
  /\ ckState = "Completed"
  /\ ckOnline
  /\ ckPaymentMethod = "cash"
  /\ ckCustomerId = "c1"
  /\ Len(remoteSales) = 2
  /\ "c2" \in addedCustomers
  /\ customersAsBefore

\* C8: no step taken while an offline checkout is Processing changes the
\* remote store: the sales table, the products' stock and the record of any
\* customer.
C8_OfflineLeavesRemote ==
  [][(ckState = "Processing" /\ ~ckOnline) =>
       /\ UNCHANGED <<remoteSales, remoteStock>>
       /\ \A c \in DOMAIN customers :
            c \in DOMAIN customers' /\ customers'[c] = customers[c]]_vars

C8_Witness ==
  /\ ckState = "Completed"
  /\ ~ckOnline
  /\ ckPaymentMethod = "debt"
  /\ ckCustomerId = "c1"
  /\ Len(pendingQueue) = 2
  /\ remoteSales = <<>>
  /\ customers = ckCustomersBefore

\* C9: right after a successful stock decrement of a line with quantity Q,
\* the product's remote stock is max(0, S - Q), S being its remote stock just
\* before the decrement, and it is not negative.
C9_StockDecrement ==
  (writes # <<>> /\ Last(writes).call = "stock" /\ Last(writes).ok) =>
     LET item == ckCart[Last(writes).line] IN
       /\ remoteStock[item.id] = Max(0, ckStockBefore - item.quantity)
       /\ remoteStock[item.id] >= 0

\* C10: a failed stock decrement of a line leaves that line's sale record in
\* the sales table and does not fail the checkout: the checkout goes on with
\* the next line's insert, or is Completed if the line was the last.
C10_StockFailureLogged ==
  \A i \in 1..Len(writes) :
     (writes[i].call = "stock" /\ ~writes[i].ok) =>
        /\ \E j \in 1..Len(remoteSales) : remoteSales[j].line = writes[i].line
        /\ i = Len(writes) =>
             IF writes[i].line < Len(ckCart)
               THEN /\ ckState = "Processing"
                    /\ pc = "insert"
                    /\ ckLine = writes[i].line + 1
               ELSE ckState = "Completed"

C10_Witness ==
  /\ ckState = "Completed"
  /\ Len(ckCart) = 2
  /\ Len(remoteSales) = 2
  /\ \E i \in 1..Len(writes) :
       writes[i].call = "stock" /\ ~writes[i].ok /\ writes[i].line = 1

\* C11: a checkout whose every line ran to its end without a throw is
\* Completed, and in the Completed state the cart is empty, the payment
\* method is cash and no customer is selected.
LineDone(l) ==
  \E i \in 1..Len(writes) :
     writes[i].line = l /\ writes[i].call \in {"stock", "queue"}

C11_CompletedResets ==
  /\ (ckState \in {"Completed", "Failed"} /\ ckCart # <<>>
        /\ \A l \in 1..Len(ckCart) : LineDone(l)) => ckState = "Completed"
  /\ ckState = "Completed" =>
        /\ \A l \in 1..Len(ckCart) : LineDone(l)
        /\ cart = <<>>
        /\ paymentMethod = "cash"
        /\ selectedCustomerId = None

\* The customer of the checkout was selected by the modal's callback.
C11_Witness ==
  /\ ckState = "Completed"
  /\ ckOnline
  /\ ckPaymentMethod = "debt"
  /\ ckCustomerId = "c2"
  /\ Len(ckCart) = 2
  /\ cart = <<>>
  /\ paymentMethod = "cash"
  /\ selectedCustomerId = None

\* C12: the busy flag is set exactly while a checkout is Processing, and,
\* every awaited call returning, a checkout that is Processing ends as
\* Completed or Failed with the busy flag cleared.
C12_CheckoutEnds ==
  /\ [](isProcessingCheckout <=> ckState = "Processing")
  /\ (ckState = "Processing") ~>
        (ckState \in {"Completed", "Failed"} /\ ~isProcessingCheckout)

C12_Witness ==
  /\ ckState = "Failed"
  /\ Len(writes) = 4
  /\ ~Last(writes).ok
  /\ ~isProcessingCheckout

\* C13: while a checkout is Processing the busy flag is set and
\* handleCheckout cannot be invoked, whatever the cart and the selectors
\* are: no further checkout starts before the running one has ended.
C13_SingleFlight ==
  ckState = "Processing" =>
     /\ isProcessingCheckout
     /\ ~ENABLED clickCheckout(ckId + 1)

\* The cart and the selectors changed while the checkout runs, the
\* customer by the modal, and nothing but the busy flag disables the button.
C13_Witness ==
  /\ ckState = "Processing"
  /\ ckLine = 2
  /\ ckPaymentMethod = "cash"
  /\ ckCustomerId = None
  /\ paymentMethod = "debt"
  /\ selectedCustomerId = "c2"
  /\ cart # ckCart
  /\ cart # <<>>
  /\ user # None
  /\ ~customerRequired(paymentMethod, selectedCustomerId)

\* C14: the calls of an online checkout are awaited one after the other.
\* The first is the sale insert of line 1; a successful sale insert is
\* followed by the same line's customer update (debt, with the selected
\* customer found among customers) or stock update (otherwise, a debt sale
\* to a customer customers does not list included), a customer update by
\* the same line's stock update, a stock
\* update by the next line's sale insert; nothing follows a rejected sale
\* insert or customer update; the one call in flight is the successor of
\* the last call that returned.
C14_SequentialWrites ==
  (ckState # "Idle" /\ ckOnline) =>
    /\ \A i \in 1..Len(writes) :
         IF i = 1
           THEN writes[i].line = 1 /\ writes[i].call = "sale"
           ELSE LET v == writes[i - 1]
                    w == writes[i]
                IN  CASE v.call = "sale" ->
                           /\ v.ok
                           /\ w.line = v.line
                           /\ w.call =
                                IF ckPaymentMethod = "debt" /\ ckCustomer.id # None
                                  THEN "customer" ELSE "stock"
                      [] v.call = "customer" ->
                           v.ok /\ w.line = v.line /\ w.call = "stock"
                      [] v.call = "stock" ->
                           w.line = v.line + 1 /\ w.call = "sale"
                      [] OTHER -> FALSE
    /\ ckState = "Processing" =>
         CASE pc = "insert" ->
                IF writes = <<>> THEN ckLine = 1
                ELSE Last(writes).call = "stock" /\ ckLine = Last(writes).line + 1
           [] pc = "customer" ->
                Last(writes) = [line |-> ckLine, call |-> "sale", ok |-> TRUE]
           [] pc = "stock" ->
                /\ Last(writes).line = ckLine /\ Last(writes).ok
                /\ Last(writes).call =
                     IF ckPaymentMethod = "debt" /\ ckCustomer.id # None
                       THEN "customer" ELSE "sale"
           [] OTHER -> FALSE

\* A debt checkout for a customer the modal created and customers does not
\* list yet: each line's sale insert is followed by its stock update.
C14_Witness ==
  /\ ckState = "Completed"
  /\ ckOnline
  /\ ckPaymentMethod = "debt"
  /\ ckCustomerId = "c2"
  /\ ckCustomer = NoCustomer
  /\ Len(ckCart) = 2
  /\ Len(writes) = 4
  /\ ~writes[2].ok

\* C15: a fetchData call that ran alone, online, and ended without a throw
\* exposes the remote result and has stored it as the snapshot of its
\* filter set, and for every other filter set the rows an offline read
\* would get from the store are still those it would have got before.
C15_OnlineReadReplaces ==
  (lastRead.done /\ ~lastRead.overlapped /\ lastRead.online
     /\ lastRead.threw = "none") =>
     /\ data = lastRead.fresh
     /\ applyFilters(offlineCache, lastRead.filters) = lastRead.fresh
     /\ \A g \in FilterSets :
          g # lastRead.filters =>
            applyFilters(lastRead.cacheBefore, g) \subseteq applyFilters(offlineCache, g)

\* C16: a fetchData call that ran alone, online, whose remote query failed
\* and whose fallback cache read returned, ends with the error set and with
\* data the rows of the cached snapshot that match its filters.
C16_RemoteFailureFallback ==
  (lastRead.done /\ ~lastRead.overlapped /\ lastRead.online
     /\ lastRead.threw = "query" /\ lastRead.fallback = "ok") =>
     /\ error # None
     /\ data = {r \in offlineCache :
                  \A k \in Keys : lastRead.filters[k] # None => r[k] = lastRead.filters[k]}

\* C17: an offline fetchData call issues no remote query; one that ran
\* alone and whose cache read returned ends with no error and with data
\* exactly the cached rows r with r[k] = v for every filter (k, v) whose
\* value is not null, which is no row when nothing is cached.
C17_OfflineRead ==
  /\ \A i \in 1..Len(reads) :
       ~reads[i].online => reads[i].queries = 0 /\ reads[i].pc \in {"get", "fallback"}
  /\ (lastRead.done /\ ~lastRead.online) => lastRead.queries = 0
  /\ (lastRead.done /\ ~lastRead.overlapped /\ ~lastRead.online
        /\ lastRead.threw = "none") =>
        /\ error = None
        /\ data = {r \in offlineCache :
                     \A k \in Keys : lastRead.filters[k] # None => r[k] = lastRead.filters[k]}
        /\ offlineCache = {} => data = {}

C17_Witness ==
  /\ lastRead.done
  /\ ~lastRead.overlapped
  /\ ~lastRead.online
  /\ lastRead.threw = "none"
  /\ lastRead.filters = [category |-> "a", user_id |-> None]
  /\ offlineCache = Rows
  /\ data = {r \in Rows : r.category = "a"}
  /\ error = None

\* C18: after a read of this session has stored the remote result R, an
\* offline fetchData call with no filter that ran alone and whose cache read
\* returned ends with data = R.
C18_CacheRoundTrip ==
  (lastRead.done /\ ~lastRead.overlapped /\ ~lastRead.online
     /\ lastRead.threw = "none" /\ lastRead.filters = NoFilters /\ lastPut.stored) =>
     data = lastPut.rows

C18_Witness ==
  /\ lastRead.done
  /\ ~lastRead.overlapped
  /\ ~lastRead.online
  /\ lastRead.threw = "none"
  /\ lastRead.filters = NoFilters
  /\ lastPut.stored
  /\ lastPut.rows = Rows
  /\ data = Rows

\* C19: a fetchData call that ran alone and whose cache read (offline) or
\* cache write (online, after the remote query succeeded) threw ends with
\* no error set and with data empty, or the fresh remote rows in the case
\* of the write.
C19_CacheFailureSilent ==
  (lastRead.done /\ ~lastRead.overlapped /\ lastRead.threw \in {"get", "store"}) =>
     /\ error = None
     /\ data = IF lastRead.threw = "store" THEN lastRead.fresh ELSE {}

\* C20: no fetchData call issues more than one remote query, loading is
\* false whenever no call is in flight after the first, and, every awaited
\* call returning, the calls in flight all end and leave loading false.
C20_ReadResolves ==
  /\ [](/\ \A i \in 1..Len(reads) : reads[i].queries <= 1
        /\ lastRead.queries <= 1
        /\ (reads = <<>> /\ readCount > 0) => ~loading)
  /\ (reads # <<>>) ~> (reads = <<>> /\ ~loading)

C20_Witness ==
  /\ lastRead.done
  /\ lastRead.online
  /\ lastRead.queries = 1
  /\ lastRead.threw = "store"
  /\ lastRead.fallback = "threw"
  /\ reads = <<>>
  /\ ~loading

\* C22: every line of the cart has a quantity greater than 0 and no two
\* lines of the cart have the same product id.
C22_CartInvariant ==
  /\ \A i \in 1..Len(cart) : cart[i].quantity > 0
  /\ \A i, j \in 1..Len(cart) : cart[i].id = cart[j].id => i = j

C22_Witness ==
  /\ Len(cart) = 1
  /\ cart[1].id = "p2"
  /\ cart[1].quantity = 2
  /\ ckId = 1
  /\ ckState = "Idle"

\* C23: no step of a checkout that ends in Failed changes the cart, the
\* payment method or the customer selection: the step that starts it, the
\* return of each of its calls and the step that fails it leave the three
\* as they are, and the failing step leaves the busy flag cleared.  What
\* the user edits while the checkout runs is the user's change, not the
\* checkout's.
C23_FailedKeepsSelection ==
  [][(/\ ckState' \in {"Processing", "Failed"}
      /\ (ckId' # ckId \/ Len(writes') > Len(writes))) =>
       /\ UNCHANGED <<cart, paymentMethod, selectedCustomerId>>
       /\ ckState' = "Failed" => ~isProcessingCheckout']_vars

C23_Witness ==
  /\ ckState = "Failed"
  /\ ckPaymentMethod = "debt"
  /\ ckCustomerId = "c1"
  /\ Len(ckCart) = 2
  /\ Len(writes) = 4
  /\ cart = ckCart
  /\ paymentMethod = "debt"
  /\ selectedCustomerId = "c1"

\* C24: the step that completes a checkout empties the cart, and every
\* line of the cart it empties has a sale record of this checkout with that
\* line's product and quantity.
C24_ClearsOnlySold ==
  [][(ckState = "Processing" /\ ckState' = "Completed") =>
       /\ cart' = <<>>
       /\ \A i \in 1..Len(cart) :
            \E j \in 1..Len(Created') :
               /\ Created'[j].product_id = cart[i].id
               /\ Created'[j].quantity = cart[i].quantity]_vars

\* C25: when the fetchData call that ended last overlapped another and no
\* call is in flight any more, data and error are those of the call that
\* was started last.
C25_LastStartedWins ==
  (reads = <<>> /\ lastRead.done /\ lastRead.overlapped /\ latest.done) =>
     /\ data = latest.data
     /\ error = latest.error

\* C21: the payment row and the balance update of a recording are committed
\* together, and once the two sessions have each recorded a payment with a
\* balance, both payment rows exist and the outstanding debt is the initial
\* debt less both amounts.
C21_NoLostPayment ==
  /\ Len(debt_payments) = Cardinality({s \in Sessions : recording[s].pc = "done"})
  /\ (\A s \in Sessions : recording[s].pc = "done" /\ recording[s].hasNew) =>
        /\ \A s \in Sessions :
             \E i \in 1..Len(debt_payments) :
                /\ debt_payments[i].session = s
                /\ debt_payments[i].amount = recording[s].p_amount
        /\ outstanding_debt =
             InitialCustomers["c1"].outstandingDebt
               - recording["s1"].p_amount - recording["s2"].p_amount

\* C26: the hourly chartData has exactly 48 points, the hours of now - 47h
\* to now in ascending order, every revenue is at least 0, and every sale of
\* the window adds max(0, total - discountAmount) to the point of its hour
\* and to no other.
RECURSIVE SumRevenue(_)
SumRevenue(points) ==
  IF points = <<>> THEN 0 ELSE points[1].revenue + SumRevenue(Tail(points))

RECURSIVE SumNet(_, _)
SumNet(sales, now) ==
  IF sales = <<>> THEN 0
  ELSE (IF sales[1].timestamp >= now - 48 * TicksPerHour
          THEN Max(0, sales[1].total - sales[1].discountAmount) ELSE 0)
       + SumNet(Tail(sales), now)

C26_HourlyPoints ==
  timeframe = "hourly" =>
     /\ Len(chartData) = 48
     /\ \A i \in 1..Len(chartData) :
          /\ chartData[i].revenue >= 0
          /\ i <= 48 => chartData[i].label = (chartNow - (48 - i) * TicksPerHour) \div TicksPerHour
          /\ i > 1 => chartData[i - 1].label < chartData[i].label
     /\ \A j \in 1..Len(chartSales) :
          chartSales[j].timestamp >= chartNow - 48 * TicksPerHour =>
            Cardinality({i \in 1..Len(chartData) :
               chartData[i].label = chartSales[j].timestamp \div TicksPerHour}) = 1
     /\ SumRevenue(chartData) = SumNet(chartSales, chartNow)

====
